---- MODULE Spec2Model ----
(***************************************************************************)
(* TxMonitorBot: the incremental block-window scanner.                     *)
(*                                                                         *)
(* The program is a single-threaded Node.js script.  Every `await` is a    *)
(* suspension point: the code between two awaits runs atomically, and any  *)
(* number of checkBlock() invocations may be suspended at the same time    *)
(* (the startup call plus one per timer fire).  An invocation is a record  *)
(* of its local variables and of the await it is suspended at; the         *)
(* invocations in flight form a bag.                                       *)
(***************************************************************************)
EXTENDS Integers, Sequences, FiniteSets, Bags, TLC

\* ---------------------------------------------------------------- bounds
\* Highest block number the node ever reports.
MaxHead == 2
\* Most checkBlock() invocations suspended at the same time.
MaxInFlight == 2
\* Most sender addresses in one scan window's aggregated counts.
MaxAddresses == 6

\* ------------------------------------------------------- program constants
\* part_000:12  const spamThreshold = parseInt(process.env.SPAM_THRESHOLD) || 50
spamThreshold == 50
\* part_000:13  const checkHistoryBlocks = parseInt(process.env.CHECK_HISTORY_BLOCKS) || 200
\* (the deployment's configured depth; 1 keeps the catch-up range inside MaxHead
\* and makes Math.max(1, latest - depth) clamp for some heads and not for others)
checkHistoryBlocks == 1

Blocks == 0..MaxHead

\* Transaction counts a fetched block may carry: below, just below, at the threshold.
TxCounts == {0, spamThreshold - 1, spamThreshold}

\* What fetchBlock(i) gives checkBlockRange: a block (by its transaction count),
\* or nothing usable (part_000:77 null after a rejection, or a block without a
\* transaction list).
NoBlock == [found |-> FALSE, txCount |-> 0]
FetchResults == {NoBlock} \cup {[found |-> TRUE, txCount |-> n] : n \in TxCounts}

VARIABLES
    head,             \* the node's current head block number
    lastBlockNumber,  \* part_000:27
    initialized,      \* part_000:28
    inflight,         \* bag of suspended checkBlock() invocations
    initCursor,       \* history: lastBlockNumber as set by the initialization
    fetchedInc,       \* history: blocks some incremental scan has fetched (or tried to)
    reported,         \* history: blocks some alert has listed
    ev                \* history: the last step taken and the invocation that took it

vars == <<head, lastBlockNumber, initialized, inflight, initCursor, fetchedInc, reported, ev>>

Max(a, b) == IF a >= b THEN a ELSE b
Range(seq) == {seq[k] : k \in 1..Len(seq)}
\* <<a, a+1, ..., b>>, empty when b < a
SeqRange(a, b) == [k \in 1..Max(0, b - a + 1) |-> a + k - 1]
Last(seq) == seq[Len(seq)]

\* The locals of checkBlock() / checkBlockRange() at the moment checkBlock() is
\* called: suspended at `await web3.eth.getBlockNumber()`.
NewInvocation ==
    [ pc               |-> "getBlockNumber",
      scan             |-> "none",      \* "init" (catch-up) or "inc" (incremental)
      latestBlockNum   |-> 0,
      startBlock       |-> 0,
      endBlock         |-> 0,
      i                |-> 0,
      highVolumeBlocks |-> <<>>,
      tried            |-> <<>> ]       \* history: the blocks fetchBlock was called on

\* ev.by names what made the step: "load", "timer", "advance", "regress", or the
\* await that completed ("headOk", "headFail", "fetchOk", "fetchNull", "sendOk",
\* "sendFail"); ev.inv holds the locals of the invocation after the step, with
\* pc = "returned" when checkBlock() returned in that step.
Event(by, inv) == [by |-> by, inv |-> inv]

Running == BagToSet(inflight)

Suspend(old, new) == (inflight (-) SetToBag({old})) (+) SetToBag({new})
Finish(old) == inflight (-) SetToBag({old})

Init ==
    /\ head \in Blocks
    /\ lastBlockNumber = 0
    /\ initialized = FALSE
    \* part_000:257  checkBlock() runs to its first await while the module loads
    /\ inflight = SetToBag({NewInvocation})
    /\ initCursor = 0
    /\ fetchedInc = {}
    /\ reported = {}
    /\ ev = Event("load", NewInvocation)

\* ------------------------------------------------------------ environment
\* The chain grows.
HeadAdvances ==
    /\ head < MaxHead
    /\ head' \in (head + 1)..MaxHead
    /\ ev' = Event("advance", NewInvocation)
    /\ UNCHANGED <<lastBlockNumber, initialized, inflight, initCursor, fetchedInc, reported>>

\* The node reports a lower head than before (a reorg, or a lagging node behind
\* the RPC endpoint).
HeadRegresses ==
    /\ head > 0
    /\ head' \in 0..(head - 1)
    /\ ev' = Event("regress", NewInvocation)
    /\ UNCHANGED <<lastBlockNumber, initialized, inflight, initCursor, fetchedInc, reported>>

\* ------------------------------------------------------------ scheduler
\* part_000:252-255  setInterval(() => { checkBlock(); ... }, 15000): the callback
\* calls checkBlock() unconditionally; it runs to `await getBlockNumber()`.
TimerFires ==
    /\ BagCardinality(inflight) < MaxInFlight
    /\ inflight' = inflight (+) SetToBag({NewInvocation})
    /\ ev' = Event("timer", NewInvocation)
    /\ UNCHANGED <<head, lastBlockNumber, initialized, initCursor, fetchedInc, reported>>

\* ------------------------------------------------------------ checkBlock
\* Mutant of NoNewBlock: the guard written with == (a stale head passes it).
NoNewBlock_OnlyEqual(latestBlockNum, last) == latestBlockNum = last

\* part_000:103  if (latestBlockNum <= lastBlockNumber) return;
NoNewBlock(latestBlockNum, last) == latestBlockNum <= last

\* Mutant of IncStart: the range starts one block too late.
IncStart_SkipsOne(last) == last + 2

\* part_000:114  first block of the incremental range, lastBlockNumber + 1
IncStart(last) == last + 1

\* part_000:92  const startBlock = Math.max(1, latestBlockNum - checkHistoryBlocks)
HistoryStart(latestBlockNum) == Max(1, latestBlockNum - checkHistoryBlocks)

\* Mutant of CursorAfterScan: the assignment after the scan is missing.
CursorAfterScan_KeepsCursor(latestBlockNum, last) == last

\* part_000:115  lastBlockNumber = latestBlockNum, after checkBlockRange returned
CursorAfterScan(latestBlockNum, last) == latestBlockNum

\* Mutant of CursorOnError: the flag is set before the head query is awaited, so
\* a failed first query leaves the scanner marked initialized.
CursorOnError_MarksInitialized(cur) == [cur EXCEPT !.init = TRUE]

\* part_000:116-118  catch (err) { console.error(...) }: the cursor and the flag
\* are left as they are.
CursorOnError(cur) == cur

\* checkBlock() returns (part_000:98 after the catch-up, part_000:115 after an
\* incremental scan).  `cur` is lastBlockNumber as this step has it so far.
Return(by, old, inv, cur) ==
    /\ lastBlockNumber' = IF inv.scan = "inc"
                            THEN CursorAfterScan(inv.latestBlockNum, cur)
                            ELSE cur
    /\ inflight' = Finish(old)
    /\ reported' = reported
    /\ ev' = Event(by, [inv EXCEPT !.pc = "returned"])

\* part_000:158-165  after the loop: one alert when highVolumeBlocks is not empty.
\* sendSpamAlert composes the message and suspends in safeSendMessage at
\* `await bot.sendMessage` (part_000:66).
AfterLoop(by, old, inv, cur) ==
    IF Len(inv.highVolumeBlocks) > 0
    THEN /\ inflight' = Suspend(old, [inv EXCEPT !.pc = "sendMessage"])
         /\ reported' = reported \cup Range(inv.highVolumeBlocks)
         /\ lastBlockNumber' = cur
         /\ ev' = Event(by, [inv EXCEPT !.pc = "sendMessage"])
    ELSE Return(by, old, inv, cur)

\* part_000:126  for (let i = startBlock; i <= endBlock; i++): the loop test, and
\* the suspension at `await fetchBlock(i)` (part_000:127).
LoopTest(by, old, inv, cur) ==
    IF inv.i <= inv.endBlock
    THEN /\ inflight' = Suspend(old, [inv EXCEPT !.pc = "fetchBlock"])
         /\ reported' = reported
         /\ lastBlockNumber' = cur
         /\ ev' = Event(by, [inv EXCEPT !.pc = "fetchBlock"])
    ELSE AfterLoop(by, old, inv, cur)

\* part_000:121-124  checkBlockRange(startBlock, endBlock) is entered.
EnterRange(inv, scan, startBlock, endBlock) ==
    [inv EXCEPT !.scan = scan, !.startBlock = startBlock, !.endBlock = endBlock,
                !.i = startBlock, !.highVolumeBlocks = <<>>]

\* part_000:83 rejects: the catch at part_000:116 logs and checkBlock() returns.
GetBlockNumberFails(old) ==
    /\ old.pc = "getBlockNumber"
    /\ LET cur == CursorOnError([last |-> lastBlockNumber, init |-> initialized])
       IN /\ lastBlockNumber' = cur.last
          /\ initialized' = cur.init
    /\ inflight' = Finish(old)
    /\ ev' = Event("headFail", [old EXCEPT !.pc = "returned"])
    /\ UNCHANGED <<head, initCursor, fetchedInc, reported>>

\* Mutant of MarkInitialized: the flag is left unset.
MarkInitialized_Skipped == FALSE

\* part_000:88  initialized = true, written in the turn that read the head,
\* before the catch-up's first await.
MarkInitialized == TRUE

\* part_000:83-115  getBlockNumber resolves with the node's head.
GetBlockNumberReturns(old) ==
    /\ old.pc = "getBlockNumber"
    /\ LET latestBlockNum == head
           inv == [old EXCEPT !.latestBlockNum = latestBlockNum]
       IN IF ~initialized
          THEN \* part_000:86-99
               /\ initialized' = MarkInitialized
               /\ initCursor' = latestBlockNum
               /\ IF checkHistoryBlocks > 0
                  THEN LoopTest("headOk", old,
                                EnterRange(inv, "init", HistoryStart(latestBlockNum),
                                           latestBlockNum),
                                latestBlockNum)
                  ELSE Return("headOk", old, [inv EXCEPT !.scan = "init"], latestBlockNum)
          ELSE /\ UNCHANGED <<initialized, initCursor>>
               /\ IF NoNewBlock(latestBlockNum, lastBlockNumber)
                  THEN \* part_000:103-105
                       Return("headOk", old, [inv EXCEPT !.scan = "noop"], lastBlockNumber)
                  ELSE \* part_000:107-115
                       LoopTest("headOk", old,
                                EnterRange(inv, "inc", IncStart(lastBlockNumber),
                                           latestBlockNum),
                                lastBlockNumber)
    /\ UNCHANGED <<head, fetchedInc>>

\* ------------------------------------------------------------ checkBlockRange
\* part_000:135  if (txCount >= spamThreshold)
IsHighVolume(txCount) == txCount >= spamThreshold

\* Mutant of LoopBody: `break` where the code has `continue`.
LoopBody_BreakOnNull(inv, block) ==
    IF ~block.found
    THEN [inv EXCEPT !.tried = Append(@, inv.i), !.i = inv.endBlock + 1]
    ELSE [inv EXCEPT !.tried = Append(@, inv.i),
                     !.highVolumeBlocks =
                         IF block.txCount >= spamThreshold THEN Append(@, inv.i) ELSE @,
                     !.i = @ + 1]

\* part_000:127-156  the loop body once fetchBlock(i) has resolved with `block`
\* (NoBlock: fetchBlock caught a rejection at part_000:75-78, or the block has no
\* transaction list), up to and including i++.
LoopBody(inv, block) ==
    IF ~block.found
    THEN [inv EXCEPT !.tried = Append(@, inv.i), !.i = @ + 1]
    ELSE [inv EXCEPT !.tried = Append(@, inv.i),
                     !.highVolumeBlocks =
                         IF IsHighVolume(block.txCount) THEN Append(@, inv.i) ELSE @,
                     !.i = @ + 1]

FetchBlockReturns(old, block) ==
    /\ old.pc = "fetchBlock"
    /\ fetchedInc' = IF old.scan = "inc" THEN fetchedInc \cup {old.i} ELSE fetchedInc
    /\ LoopTest(IF block.found THEN "fetchOk" ELSE "fetchNull",
                old, LoopBody(old, block), lastBlockNumber)
    /\ UNCHANGED <<head, initialized, initCursor>>

\* ------------------------------------------------------------ safeSendMessage
\* part_000:64-70  bot.sendMessage resolves, or rejects and the rejection is
\* caught and logged; either way sendSpamAlert and checkBlockRange return.
SendMessageReturns(old, delivered) ==
    /\ old.pc = "sendMessage"
    /\ Return(IF delivered THEN "sendOk" ELSE "sendFail", old, old, lastBlockNumber)
    /\ UNCHANGED <<head, initialized, initCursor, fetchedInc>>

\* ------------------------------------------------------------ sendSpamAlert
\* Mutant of BlockLines: the lines in the reverse of the push order.
BlockLines_Reversed(highVolumeBlocks) ==
    [k \in 1..Len(highVolumeBlocks) |->
        highVolumeBlocks[Len(highVolumeBlocks) + 1 - k]]

\* part_000:175-177  highVolumeBlocks.forEach(block => message += `- Block
\* ${block.number}: ...`): the block numbers of the per-block lines, top down.
BlockLines(highVolumeBlocks) ==
    [k \in 1..Len(highVolumeBlocks) |-> highVolumeBlocks[k]]

\* ------------------------------------------------------------ specification
GetBlockNumberFailsSome == \E inv \in Running : GetBlockNumberFails(inv)
GetBlockNumberReturnsSome == \E inv \in Running : GetBlockNumberReturns(inv)
FetchBlockReturnsSome == \E inv \in Running : \E block \in FetchResults : FetchBlockReturns(inv, block)
SendMessageReturnsSome == \E inv \in Running : \E d \in BOOLEAN : SendMessageReturns(inv, d)

Next ==
    \/ HeadAdvances
    \/ HeadRegresses
    \/ TimerFires
    \/ GetBlockNumberFailsSome
    \/ GetBlockNumberReturnsSome
    \/ FetchBlockReturnsSome
    \/ SendMessageReturnsSome

Spec == Init /\ [][Next]_vars

\* The same program on a chain whose reported head never goes down, with the
\* fairness the runtime gives: the interval timer keeps firing, every network
\* call settles (the HTTP provider times out after 60 s, part_000:24), and the
\* head query is not failing forever.
NextMono ==
    \/ HeadAdvances
    \/ TimerFires
    \/ GetBlockNumberFailsSome
    \/ GetBlockNumberReturnsSome
    \/ FetchBlockReturnsSome
    \/ SendMessageReturnsSome

SpecFair ==
    /\ Init
    /\ [][NextMono]_vars
    /\ WF_vars(TimerFires)
    /\ WF_vars(GetBlockNumberFailsSome \/ GetBlockNumberReturnsSome)
    /\ SF_vars(GetBlockNumberReturnsSome)
    /\ WF_vars(FetchBlockReturnsSome)
    /\ WF_vars(SendMessageReturnsSome)

\* ------------------------------------------------------------ part_001
\* The earliest variant of the bot (src/unnamed/part_001): no initialization
\* flag, no catch-up, one alert per high-volume block sent from inside the loop
\* with a bare `await bot.sendMessage`, and a bare `await web3.eth.getBlock`.
\* It uses the same variables; `initialized` and `initCursor` stay as Init has
\* them.  Every invocation is an incremental scan.

\* part_001:31  if (txCount > 100)
P1_Threshold == 100
P1_TxCounts == {P1_Threshold, P1_Threshold + 1}
P1_FetchResults == {NoBlock} \cup {[found |-> TRUE, txCount |-> n] : n \in P1_TxCounts}

P1_IsHighVolume(txCount) == txCount > P1_Threshold

P1_Init ==
    /\ head \in Blocks
    /\ lastBlockNumber = 0      \* part_001:15
    /\ initialized = FALSE
    /\ inflight = EmptyBag      \* part_001:60 only arms the timer
    /\ initCursor = 0
    /\ fetchedInc = {}
    /\ reported = {}
    /\ ev = Event("load", NewInvocation)

\* part_001:60  setInterval(checkBlock, 15000)
P1_TimerFires ==
    /\ BagCardinality(inflight) < MaxInFlight
    /\ inflight' = inflight (+) SetToBag({NewInvocation})
    /\ ev' = Event("timer", NewInvocation)
    /\ UNCHANGED <<head, lastBlockNumber, initialized, initCursor, fetchedInc, reported>>

\* part_001:54-56  catch (err) { console.error(...) }: whatever was thrown inside
\* the try ends this invocation; line 52 is not reached.
P1_Catch(by, old, inv) ==
    /\ inflight' = Finish(old)
    /\ lastBlockNumber' = lastBlockNumber
    /\ ev' = Event(by, [inv EXCEPT !.pc = "returned"])

\* part_001:24  the loop test with i already advanced; part_001:52 after the loop.
P1_LoopTest(by, old, inv) ==
    IF inv.i <= inv.endBlock
    THEN /\ inflight' = Suspend(old, [inv EXCEPT !.pc = "fetchBlock"])
         /\ lastBlockNumber' = lastBlockNumber
         /\ ev' = Event(by, [inv EXCEPT !.pc = "fetchBlock"])
    ELSE /\ inflight' = Finish(old)
         /\ lastBlockNumber' = inv.latestBlockNum
         /\ ev' = Event(by, [inv EXCEPT !.pc = "returned"])

\* part_001:20 rejects.
P1_GetBlockNumberFails(old) ==
    /\ old.pc = "getBlockNumber"
    /\ P1_Catch("headFail", old, old)
    /\ UNCHANGED <<head, initialized, initCursor, fetchedInc, reported>>

\* part_001:20-24  getBlockNumber resolves.
P1_GetBlockNumberReturns(old) ==
    /\ old.pc = "getBlockNumber"
    /\ LET latestBlockNumber == head
           inv == [old EXCEPT !.latestBlockNum = latestBlockNumber]
       IN IF latestBlockNumber <= lastBlockNumber
          THEN \* part_001:22
               /\ inflight' = Finish(old)
               /\ lastBlockNumber' = lastBlockNumber
               /\ ev' = Event("headOk", [inv EXCEPT !.scan = "noop", !.pc = "returned"])
          ELSE P1_LoopTest("headOk", old,
                           EnterRange(inv, "inc", lastBlockNumber + 1, latestBlockNumber))
    /\ UNCHANGED <<head, initialized, initCursor, fetchedInc, reported>>

\* part_001:25 rejects: nothing catches it before part_001:54.
P1_GetBlockFails(old) ==
    /\ old.pc = "fetchBlock"
    /\ fetchedInc' = fetchedInc \cup {old.i}
    /\ P1_Catch("fetchFail", old, [old EXCEPT !.tried = Append(@, old.i)])
    /\ UNCHANGED <<head, initialized, initCursor, reported>>

\* part_001:25-42  getBlock resolves with `block`; the invocation keeps the
\* local txCount (part_001:30) of the last block it found.
P1_GetBlockReturns(old, block) ==
    /\ old.pc = "fetchBlock"
    /\ fetchedInc' = fetchedInc \cup {old.i}
    /\ LET txCount == IF block.found THEN [txCount |-> block.txCount] ELSE <<>>
           inv == txCount @@ [old EXCEPT !.tried = Append(@, old.i)]
       IN IF block.found /\ P1_IsHighVolume(block.txCount)
          THEN \* part_001:31-41  suspended at `await bot.sendMessage`
               /\ inflight' = Suspend(old, [inv EXCEPT !.pc = "sendMessage",
                                                       !.highVolumeBlocks = Append(@, old.i)])
               /\ reported' = reported \cup {old.i}
               /\ lastBlockNumber' = lastBlockNumber
               /\ ev' = Event("fetchOk", [inv EXCEPT !.pc = "sendMessage",
                                                     !.highVolumeBlocks = Append(@, old.i)])
          ELSE \* part_001:27 continue, or a block below the threshold
               /\ reported' = reported
               /\ P1_LoopTest(IF block.found THEN "fetchOk" ELSE "fetchNull",
                              old, [inv EXCEPT !.i = @ + 1])
    /\ UNCHANGED <<head, initialized, initCursor>>

\* part_001:41  bot.sendMessage resolves: the loop goes on; or rejects: the
\* rejection reaches the catch at part_001:54.
P1_SendMessageReturns(old, delivered) ==
    /\ old.pc = "sendMessage"
    /\ IF delivered
       THEN P1_LoopTest("sendOk", old, [old EXCEPT !.i = @ + 1])
       ELSE P1_Catch("sendFail", old, old)
    /\ UNCHANGED <<head, initialized, initCursor, fetchedInc, reported>>

P1_GetBlockNumberFailsSome == \E inv \in Running : P1_GetBlockNumberFails(inv)
P1_GetBlockNumberReturnsSome == \E inv \in Running : P1_GetBlockNumberReturns(inv)
P1_GetBlockFailsSome == \E inv \in Running : P1_GetBlockFails(inv)
P1_GetBlockReturnsSome ==
    \E inv \in Running : \E block \in P1_FetchResults : P1_GetBlockReturns(inv, block)
P1_SendMessageReturnsSome ==
    \E inv \in Running : \E d \in BOOLEAN : P1_SendMessageReturns(inv, d)

P1_Next ==
    \/ HeadAdvances
    \/ HeadRegresses
    \/ P1_TimerFires
    \/ P1_GetBlockNumberFailsSome
    \/ P1_GetBlockNumberReturnsSome
    \/ P1_GetBlockFailsSome
    \/ P1_GetBlockReturnsSome
    \/ P1_SendMessageReturnsSome

SpecP1 == P1_Init /\ [][P1_Next]_vars

\* ------------------------------------------------------------ index.js
\* The middle variant of the bot (src/index.js): no initialization flag and no
\* catch-up; checkBlocksSummary() fetches every block above the cursor, keeps
\* the transactions of all of them, writes the cursor after the loop and sends
\* one summary when the range carried any transaction.  It uses the same
\* variables; initialized, initCursor, fetchedInc and reported stay as Init has
\* them.  A block is the bag of its transactions' senders.

\* index.js:24  const SPAM_THRESHOLD = 16
SPAM_THRESHOLD == 16
\* index.js:25  const TOP_SENDERS_DISPLAY = 5
TOP_SENDERS_DISPLAY == 5

IX_Senders == {"a", "b"}
\* Transactions one sender may have in one block.
IX_SendCounts == {0, 1, SPAM_THRESHOLD - 1}
IX_NoBlock == [found |-> FALSE, transactions |-> [s \in IX_Senders |-> 0]]
IX_FetchResults ==
    {IX_NoBlock} \cup
    {[found |-> TRUE, transactions |-> t] : t \in [IX_Senders -> IX_SendCounts]}

RECURSIVE Sum(_, _)
Sum(f, S) == IF S = {} THEN 0 ELSE LET x == CHOOSE x \in S : TRUE
                                   IN f[x] + Sum(f, S \ {x})

\* index.js:92  block.transactions.length
IX_Length(transactions) == Sum(transactions, DOMAIN transactions)

\* The locals of checkBlocksSummary() when it is called: suspended at
\* `await web3.eth.getBlockNumber()` (index.js:79).
IX_NewInvocation ==
    [ pc                |-> "getBlockNumber",
      scan              |-> "none",
      latestBlockNumber |-> 0,
      i                 |-> 0,
      totalTxCount      |-> 0,
      blockDetails      |-> <<>>,   \* <<[number, txCount]>>, index.js:94
      allTransactions   |-> <<>>,   \* one entry per pushed block, index.js:98
      message           |-> [sent |-> FALSE] ]

\* index.js:236  the initial checkBlocksSummary() call.
IX_Init ==
    /\ head \in Blocks
    /\ lastBlockNumber = 0      \* index.js:23
    /\ initialized = FALSE
    /\ inflight = SetToBag({IX_NewInvocation})
    /\ initCursor = 0
    /\ fetchedInc = {}
    /\ reported = {}
    /\ ev = Event("load", IX_NewInvocation)

\* index.js:230-233  the interval callback calls checkBlocksSummary().
IX_TimerFires ==
    /\ BagCardinality(inflight) < MaxInFlight
    /\ inflight' = inflight (+) SetToBag({IX_NewInvocation})
    /\ ev' = Event("timer", IX_NewInvocation)
    /\ UNCHANGED <<head, lastBlockNumber, initialized, initCursor, fetchedInc, reported>>

\* index.js:47-74  analyzeSpamPatterns(allTransactions).senderCounts: for every
\* sender, the number of collected transactions it sent.
IX_senderCounts(allTransactions) ==
    [s \in IX_Senders |->
        Sum([k \in 1..Len(allTransactions) |-> allTransactions[k].transactions[s]],
            1..Len(allTransactions))]

\* index.js:109-111  the senders with at least SPAM_THRESHOLD transactions, by
\* descending count (the order among equal counts is the sort's).
IX_topSenders(senderCounts) ==
    LET Q == {s \in IX_Senders : senderCounts[s] >= SPAM_THRESHOLD}
    IN CHOOSE seq \in [1..Cardinality(Q) -> Q] :
          /\ \A j, k \in 1..Cardinality(Q) : j # k => seq[j] # seq[k]
          /\ \A j, k \in 1..Cardinality(Q) :
                j < k => senderCounts[seq[j]] >= senderCounts[seq[k]]

\* index.js:114-133  the message, by its parts.
IX_Message(inv) ==
    LET topSenders == IX_topSenders(IX_senderCounts(inv.allTransactions))
    IN [ sent           |-> TRUE,
         totalTxCount   |-> inv.totalTxCount,
         blockDetails   |-> inv.blockDetails,
         topSection     |-> Len(topSenders) > 0,
         displaySenders |-> SubSeq(topSenders, 1,
                                   IF Len(topSenders) < TOP_SENDERS_DISPLAY
                                   THEN Len(topSenders) ELSE TOP_SENDERS_DISPLAY),
         extraCount     |-> Len(topSenders) - TOP_SENDERS_DISPLAY,
         link           |-> inv.latestBlockNumber ]

\* index.js:87 the loop test with i already set; index.js:101-135 after the loop.
IX_LoopTest(by, old, inv) ==
    IF inv.i <= inv.latestBlockNumber
    THEN /\ inflight' = Suspend(old, [inv EXCEPT !.pc = "fetchBlock"])
         /\ lastBlockNumber' = lastBlockNumber
         /\ ev' = Event(by, [inv EXCEPT !.pc = "fetchBlock"])
    ELSE /\ lastBlockNumber' = inv.latestBlockNumber
         /\ IF inv.totalTxCount = 0
            THEN /\ inflight' = Finish(old)
                 /\ ev' = Event(by, [inv EXCEPT !.pc = "returned"])
            ELSE LET new == [inv EXCEPT !.pc = "sendMessage", !.message = IX_Message(inv)]
                 IN /\ inflight' = Suspend(old, new)
                    /\ ev' = Event(by, new)

\* index.js:79 rejects: the catch at index.js:137 logs.
IX_GetBlockNumberFails(old) ==
    /\ old.pc = "getBlockNumber"
    /\ inflight' = Finish(old)
    /\ ev' = Event("headFail", [old EXCEPT !.pc = "returned"])
    /\ UNCHANGED <<head, lastBlockNumber, initialized, initCursor, fetchedInc, reported>>

\* index.js:79-87  getBlockNumber resolves.
IX_GetBlockNumberReturns(old) ==
    /\ old.pc = "getBlockNumber"
    /\ LET latestBlockNumber == head
           inv == [old EXCEPT !.latestBlockNumber = latestBlockNumber]
       IN IF latestBlockNumber <= lastBlockNumber
          THEN /\ inflight' = Finish(old)
               /\ lastBlockNumber' = lastBlockNumber
               /\ ev' = Event("headOk", [inv EXCEPT !.scan = "noop", !.pc = "returned"])
          ELSE IX_LoopTest("headOk", old,
                           [inv EXCEPT !.scan = "inc", !.i = lastBlockNumber + 1])
    /\ UNCHANGED <<head, initialized, initCursor, fetchedInc, reported>>

\* index.js:88-99  fetchBlock(i) has resolved with `block` (IX_NoBlock: null
\* after a caught rejection, or no transaction list), up to and including i++.
IX_LoopBody(inv, block) ==
    IF ~block.found
    THEN [inv EXCEPT !.i = @ + 1]
    ELSE [inv EXCEPT !.totalTxCount = @ + IX_Length(block.transactions),
                     !.blockDetails =
                         Append(@, [number  |-> inv.i,
                                    txCount |-> IX_Length(block.transactions)]),
                     !.allTransactions =
                         Append(@, [number |-> inv.i, transactions |-> block.transactions]),
                     !.i = @ + 1]

IX_FetchBlockReturns(old, block) ==
    /\ old.pc = "fetchBlock"
    /\ IX_LoopTest(IF block.found THEN "fetchOk" ELSE "fetchNull",
                   old, IX_LoopBody(old, block))
    /\ UNCHANGED <<head, initialized, initCursor, fetchedInc, reported>>

\* index.js:27-34  safeSendMessage: delivered, or the rejection is caught.
IX_SendMessageReturns(old, delivered) ==
    /\ old.pc = "sendMessage"
    /\ inflight' = Finish(old)
    /\ ev' = Event(IF delivered THEN "sendOk" ELSE "sendFail",
                   [old EXCEPT !.pc = "returned"])
    /\ UNCHANGED <<head, lastBlockNumber, initialized, initCursor, fetchedInc, reported>>

IX_GetBlockNumberFailsSome == \E inv \in Running : IX_GetBlockNumberFails(inv)
IX_GetBlockNumberReturnsSome == \E inv \in Running : IX_GetBlockNumberReturns(inv)
IX_FetchBlockReturnsSome ==
    \E inv \in Running : \E block \in IX_FetchResults : IX_FetchBlockReturns(inv, block)
IX_SendMessageReturnsSome ==
    \E inv \in Running : \E d \in BOOLEAN : IX_SendMessageReturns(inv, d)

IX_Next ==
    \/ HeadAdvances
    \/ HeadRegresses
    \/ IX_TimerFires
    \/ IX_GetBlockNumberFailsSome
    \/ IX_GetBlockNumberReturnsSome
    \/ IX_FetchBlockReturnsSome
    \/ IX_SendMessageReturnsSome

SpecIX == IX_Init /\ [][IX_Next]_vars

\* ------------------------------------------------------------ sendSpamAlert alone
\* sendSpamAlert(highVolumeBlocks, allAddressTxCount) of part_000 as a function
\* of its arguments.  allAddressTxCount, a Map in insertion order, is the
\* sequence of its counts: the k-th inserted address is k.  A call is an
\* invocation record in `inflight`; the scanner's variables stay as Init has them.

\* Aggregated send counts one address may have.
SA_Counts == {1, spamThreshold - 1, spamThreshold, spamThreshold + 1}

\* Every allAddressTxCount checkBlockRange can hand over with one high-volume
\* block: at most MaxAddresses senders, spamThreshold transactions or more.
SA_Inputs ==
    {c \in UNION {[1..n -> SA_Counts] : n \in 1..MaxAddresses} :
        Sum(c, DOMAIN c) >= spamThreshold}

SA_NewInvocation(allAddressTxCount) ==
    [ pc                |-> "sendSpamAlert",
      highVolumeBlocks  |-> <<[number  |-> 1,
                               txCount |-> Sum(allAddressTxCount,
                                               DOMAIN allAddressTxCount)]>>,
      allAddressTxCount |-> allAddressTxCount,
      message           |-> [sent |-> FALSE] ]

\* part_000:158-160  checkBlockRange is about to call sendSpamAlert.
SA_Init ==
    /\ head = 1
    /\ lastBlockNumber = 1
    /\ initialized = TRUE
    /\ \E c \in SA_Inputs : /\ inflight = SetToBag({SA_NewInvocation(c)})
                            /\ ev = Event("call", SA_NewInvocation(c))
    /\ initCursor = 1
    /\ fetchedInc = {}
    /\ reported = {}

\* part_000:179-185  txCountToAddresses: for a count, the addresses that have
\* it, in insertion order.
txCountToAddresses(allAddressTxCount, count) ==
    SelectSeq([k \in DOMAIN allAddressTxCount |-> k],
              LAMBDA a : allAddressTxCount[a] = count)

\* part_000:187-194  the largest count present (0 for an empty map).
maxCount(allAddressTxCount) ==
    IF DOMAIN allAddressTxCount = {} THEN 0
    ELSE CHOOSE m \in Range(allAddressTxCount) :
            \A n \in Range(allAddressTxCount) : n <= m

\* part_000:187-194  the addresses tied at the largest count.
topSpamAddresses(allAddressTxCount) ==
    IF DOMAIN allAddressTxCount = {} THEN <<>>
    ELSE txCountToAddresses(allAddressTxCount, maxCount(allAddressTxCount))

\* part_000:168-212  the message, by its parts.
SA_Message(highVolumeBlocks, allAddressTxCount) ==
    LET top == topSpamAddresses(allAddressTxCount)
    IN [ sent              |-> TRUE,
         blocks            |-> Len(highVolumeBlocks),
         totalTransactions |->
             Sum([k \in DOMAIN highVolumeBlocks |-> highVolumeBlocks[k].txCount],
                 DOMAIN highVolumeBlocks),
         blockLines        |->
             BlockLines([k \in DOMAIN highVolumeBlocks |-> highVolumeBlocks[k].number]),
         topSection        |-> Len(top) > 0,
         maxCount          |-> maxCount(allAddressTxCount),
         addressesToShow   |-> SubSeq(top, 1, IF Len(top) < 5 THEN Len(top) ELSE 5),
         remainingCount    |-> Len(top) - 5,
         link              |-> highVolumeBlocks[Len(highVolumeBlocks)].number ]

\* part_000:167-214  sendSpamAlert runs up to `await safeSendMessage(message)`.
SA_Compose(old) ==
    /\ old.pc = "sendSpamAlert"
    /\ LET new == [old EXCEPT !.pc = "sendMessage",
                              !.message = SA_Message(old.highVolumeBlocks,
                                                     old.allAddressTxCount)]
       IN /\ inflight' = Suspend(old, new)
          /\ ev' = Event("compose", new)
    /\ UNCHANGED <<head, lastBlockNumber, initialized, initCursor, fetchedInc, reported>>

\* part_000:64-70  safeSendMessage: delivered, or the rejection is caught.
SA_SendMessageReturns(old, delivered) ==
    /\ old.pc = "sendMessage"
    /\ inflight' = Finish(old)
    /\ ev' = Event(IF delivered THEN "sendOk" ELSE "sendFail",
                   [old EXCEPT !.pc = "returned"])
    /\ UNCHANGED <<head, lastBlockNumber, initialized, initCursor, fetchedInc, reported>>

SA_ComposeSome == \E inv \in Running : SA_Compose(inv)
SA_SendMessageReturnsSome ==
    \E inv \in Running : \E d \in BOOLEAN : SA_SendMessageReturns(inv, d)

SA_Next ==
    \/ SA_ComposeSome
    \/ SA_SendMessageReturnsSome

SpecSA == SA_Init /\ [][SA_Next]_vars

\* ------------------------------------------------------------ checkPendingTxs
\* checkPendingTxs() of part_000.  It shares no variable with checkBlock(): the
\* interval callback (part_000:252-255) calls both, and this specification
\* follows the second call.  `txPool` is what the web3 object exposes -- nothing,
\* txPool.status alone, or status and content; it is fixed when the process
\* starts and every invocation record carries it.

PT_TxPools == {"none", "status", "statusAndContent"}
\* Values the node may report as poolStatus.pending (0 also stands for an
\* absent field, part_000:222): none, around the threshold of part_000:224.
PT_PendingCounts == {0, 49, 50, 51, 52}

PT_NewInvocation(txPool) ==
    [ pc           |-> "status",
      txPool       |-> txPool,
      pendingCount |-> 0,
      message      |-> [sent |-> FALSE, details |-> FALSE, note |-> FALSE],
      queried      |-> {},      \* pool queries issued so far
      log          |-> {} ]     \* console.error lines written so far

PT_Init ==
    /\ head = 0
    /\ lastBlockNumber = 0
    /\ initialized = FALSE
    /\ inflight = EmptyBag
    /\ initCursor = 0
    /\ fetchedInc = {}
    /\ reported = {}
    /\ \E txPool \in PT_TxPools :
          ev = Event("load", [PT_NewInvocation(txPool) EXCEPT !.pc = "returned"])

\* part_000:252-255, 217-221  the interval callback calls checkPendingTxs(),
\* which returns at once without txPool.status and otherwise is suspended at
\* `await web3.eth.txPool.status()`.
PT_TimerFires ==
    /\ BagCardinality(inflight) < MaxInFlight
    /\ LET new == PT_NewInvocation(ev.inv.txPool)
       IN IF new.txPool = "none"
          THEN /\ inflight' = inflight
               /\ ev' = Event("noPool", [new EXCEPT !.pc = "returned"])
          ELSE /\ inflight' = inflight (+) SetToBag({[new EXCEPT !.queried = {"status"}]})
               /\ ev' = Event("timer", [new EXCEPT !.queried = {"status"}])
    /\ UNCHANGED <<head, lastBlockNumber, initialized, initCursor, fetchedInc, reported>>

\* part_000:221 rejects: the outer catch at part_000:247-249 writes
\* console.error("❌ Error checking pending transactions:").
PT_StatusFails(old) ==
    /\ old.pc = "status"
    /\ inflight' = Finish(old)
    /\ ev' = Event("statusFail", [old EXCEPT !.pc = "returned",
                                             !.log = @ \cup {"pending"}])
    /\ UNCHANGED <<head, lastBlockNumber, initialized, initCursor, fetchedInc, reported>>

\* part_000:221-227  status resolves with `pending`.
PT_StatusReturns(old, pending) ==
    /\ old.pc = "status"
    /\ LET inv == [old EXCEPT !.pendingCount = pending]
       IN IF pending > 50
          THEN LET new == IF inv.txPool = "statusAndContent"
                          THEN [inv EXCEPT !.pc = "content",
                                           !.queried = @ \cup {"content"}]
                          ELSE [inv EXCEPT !.pc = "sendMessage", !.message.sent = TRUE]
               IN /\ inflight' = Suspend(old, new)
                  /\ ev' = Event("statusOk", new)
          ELSE /\ inflight' = Finish(old)
               /\ ev' = Event("statusOk", [inv EXCEPT !.pc = "returned"])
    /\ UNCHANGED <<head, lastBlockNumber, initialized, initCursor, fetchedInc, reported>>

\* part_000:229-245  content() resolves and the transactions' details are
\* appended (ok), or it rejects and the inner catch at part_000:241-243 writes
\* console.error and leaves the message as it is; then safeSendMessage(message).
PT_ContentReturns(old, ok) ==
    /\ old.pc = "content"
    /\ LET new == IF ok
                  THEN [old EXCEPT !.pc = "sendMessage", !.message.sent = TRUE,
                                   !.message.details = TRUE]
                  ELSE [old EXCEPT !.pc = "sendMessage", !.message.sent = TRUE,
                                   !.log = @ \cup {"content"}]
       IN /\ inflight' = Suspend(old, new)
          /\ ev' = Event(IF ok THEN "contentOk" ELSE "contentFail", new)
    /\ UNCHANGED <<head, lastBlockNumber, initialized, initCursor, fetchedInc, reported>>

\* part_000:64-70, 245  safeSendMessage: delivered, or the rejection is caught.
PT_SendMessageReturns(old, delivered) ==
    /\ old.pc = "sendMessage"
    /\ inflight' = Finish(old)
    /\ ev' = Event(IF delivered THEN "sendOk" ELSE "sendFail",
                   [old EXCEPT !.pc = "returned"])
    /\ UNCHANGED <<head, lastBlockNumber, initialized, initCursor, fetchedInc, reported>>

PT_StatusFailsSome == \E inv \in Running : PT_StatusFails(inv)
PT_StatusReturnsSome ==
    \E inv \in Running : \E pending \in PT_PendingCounts : PT_StatusReturns(inv, pending)
PT_ContentReturnsSome ==
    \E inv \in Running : \E ok \in BOOLEAN : PT_ContentReturns(inv, ok)
PT_SendMessageReturnsSome ==
    \E inv \in Running : \E d \in BOOLEAN : PT_SendMessageReturns(inv, d)

PT_Next ==
    \/ PT_TimerFires
    \/ PT_StatusFailsSome
    \/ PT_StatusReturnsSome
    \/ PT_ContentReturnsSome
    \/ PT_SendMessageReturnsSome

SpecPT == PT_Init /\ [][PT_Next]_vars

\* ------------------------------------------------------------ vocabulary
\* The step just taken ended an invocation of checkBlock().
Returned(e) == e.inv.pc = "returned"
\* ... an invocation that ran after the initialization and read the head.
PostInitTickDone(e) == Returned(e) /\ e.inv.scan \in {"inc", "noop"}
\* The step just taken was a fetchBlock(i) settling.
FetchSettled(e) == e.by \in {"fetchOk", "fetchNull"}
\* Invocations that are inside checkBlockRange.
Scanning == {inv \in Running : inv.pc \in {"fetchBlock", "sendMessage"}}
ScanningCount == BagCardinality([inv \in Scanning |-> CopiesIn(inv, inflight)])

\* ------------------------------------------------------------ C1
\* C1: once the cursor is initialized, lastBlockNumber never decreases from one
\* state to the next, whatever the ticks' interleaving.
C1_CursorNeverDecreases ==
    [][initialized => lastBlockNumber' >= lastBlockNumber]_vars

\* ------------------------------------------------------------ C2
\* C2 (as stated): after any tick that follows initialization has finished,
\* lastBlockNumber equals the latest block number that tick read.
C2_CursorEqualsLatest ==
    PostInitTickDone(ev) => lastBlockNumber = ev.inv.latestBlockNum

\* C2 (amended): when a tick that follows initialization finishes, lastBlockNumber
\* equals the latest block number it read if that number was above the cursor
\* when it was read; otherwise the tick leaves the cursor as it was, at a value
\* not below the number it read.
C2_CursorAfterTick ==
    [][PostInitTickDone(ev') =>
        /\ ev'.inv.scan = "inc" =>
              /\ lastBlockNumber' = ev'.inv.latestBlockNum
              /\ ev'.inv.startBlock <= ev'.inv.latestBlockNum
        /\ ev'.inv.scan = "noop" =>
              /\ lastBlockNumber' = lastBlockNumber
              /\ ev'.inv.latestBlockNum <= lastBlockNumber']_vars

\* A tick read a head below the cursor and has finished.
C2_Witness ==
    /\ PostInitTickDone(ev)
    /\ ev.inv.scan = "noop"
    /\ ev.inv.latestBlockNum < lastBlockNumber

\* ------------------------------------------------------------ C3
\* C3: at no time are two invocations of the scanner in progress together (not
\* even counting an invocation that is still waiting for the head number).
C3_ScansSerialized == ScanningCount <= 1

\* ------------------------------------------------------------ C4
\* C4: no block number is fetched by more than one incremental scan, and no
\* high-volume block is listed in two alerts.
C4_NoReprocessing ==
    [][/\ (FetchSettled(ev') /\ ev'.inv.scan = "inc")
            => Last(ev'.inv.tried) \notin fetchedInc
       /\ (FetchSettled(ev') /\ ev'.inv.pc = "sendMessage")
            => Range(ev'.inv.highVolumeBlocks) \cap reported = {}]_vars

\* ------------------------------------------------------------ C5
\* C5: with a non-decreasing head, every block above the initial cursor and up
\* to the cursor has had a fetch attempted by an incremental scan; and under
\* fair ticks every block above the initial cursor that the node has reached is
\* eventually fetch-attempted.
C5_NoGapsSoFar ==
    initialized =>
        \A b \in Blocks : (initCursor < b /\ b <= lastBlockNumber) => b \in fetchedInc

\* Every block above the initial cursor that the node has reached is fetched.
\* Each conjunct is stable once true of a block (the head does not go down, the
\* sets only grow), so "every such block is eventually fetched" is the same as
\* "from some point on, C5_CaughtUp holds" whenever the head stops growing.
C5_CaughtUp ==
    \A b \in Blocks : (initialized /\ initCursor < b /\ b <= head) => b \in fetchedInc

C5_NoGaps ==
    /\ []C5_NoGapsSoFar
    /\ <>[]C5_CaughtUp

\* The cursor has moved at least two blocks past where the initialization put it.
C5_Witness ==
    /\ initialized
    /\ lastBlockNumber >= initCursor + 2
    /\ PostInitTickDone(ev)

\* ------------------------------------------------------------ C6
\* C6: the catch-up of the first scan, with head L, fetches exactly the blocks
\* max(1, L - checkHistoryBlocks)..L and the cursor is L when it ends.
C6_CatchUp ==
    [][(Returned(ev') /\ ev'.inv.scan = "init") =>
        /\ initialized'
        /\ ev'.inv.tried = SeqRange(Max(1, ev'.inv.latestBlockNum - checkHistoryBlocks),
                                    ev'.inv.latestBlockNum)
        /\ lastBlockNumber' = ev'.inv.latestBlockNum]_vars

\* ------------------------------------------------------------ C7
\* C7: a block whose fetch gives nothing is skipped once, without retry: the loop
\* moves to the next block, the block is not classified, the cursor is not
\* touched before the range ends; and a scan that ends has called fetchBlock on
\* every block of its range exactly once, in order, and (incremental) has put the
\* cursor on the end of the range.
C7_SkipAndContinue ==
    [][/\ ev'.by = "fetchNull" =>
            /\ ev'.inv.i = Last(ev'.inv.tried) + 1
            /\ Last(ev'.inv.tried) \notin Range(ev'.inv.highVolumeBlocks)
            /\ ev'.inv.i <= ev'.inv.endBlock => ev'.inv.pc = "fetchBlock"
            /\ ~Returned(ev') => lastBlockNumber' = lastBlockNumber
       /\ (Returned(ev') /\ ev'.inv.scan \in {"inc", "init"}) =>
            /\ ev'.inv.tried = SeqRange(ev'.inv.startBlock, ev'.inv.endBlock)
            /\ ev'.inv.scan = "inc" => lastBlockNumber' = ev'.inv.endBlock]_vars

\* An incremental scan of two blocks or more ended on a fetch that gave nothing.
C7_Witness ==
    /\ ev.by = "fetchNull"
    /\ Returned(ev)
    /\ ev.inv.scan = "inc"
    /\ Len(ev.inv.tried) >= 2
    /\ lastBlockNumber = ev.inv.endBlock

\* ------------------------------------------------------------ C8
\* C8: a tick whose head query fails ends there: it fetches nothing, alerts
\* nothing, leaves the cursor and the initialized flag as they were, and leaves
\* the other invocations alone.
C8_HeadFailureIsNoOp ==
    [][ev'.by = "headFail" =>
        /\ Returned(ev')
        /\ ev'.inv.tried = <<>>
        /\ lastBlockNumber' = lastBlockNumber
        /\ initialized' = initialized
        /\ fetchedInc' = fetchedInc
        /\ reported' = reported
        /\ BagCardinality(inflight') = BagCardinality(inflight) - 1
        /\ \A inv \in BagToSet(inflight') : CopiesIn(inv, inflight') <= CopiesIn(inv, inflight)]_vars

\* The very first head query failed: the scanner is still uninitialized.
C8_Witness ==
    /\ ev.by = "headFail"
    /\ ~initialized
    /\ lastBlockNumber = 0

\* ------------------------------------------------------------ C9
\* C9: when the notifier fails to deliver an alert, the tick that produced the
\* alert is not cut short -- if it ends there, it ends with the cursor on the
\* latest block it read -- and no alert is sent again for a block that an
\* earlier alert already listed.
C9_NotifierFailureContained ==
    [][/\ (ev'.by = "sendFail" /\ Returned(ev') /\ ev'.inv.scan = "inc")
            => lastBlockNumber' = ev'.inv.latestBlockNum
       /\ (ev'.inv.pc = "sendMessage" /\ FetchSettled(ev'))
            => Range(ev'.inv.highVolumeBlocks) \cap reported = {}]_vars

\* ------------------------------------------------------------ C10
\* C10: an initialized tick that reads a head not above the cursor fetches
\* nothing, sends nothing and leaves the cursor unchanged.
C10_EmptyRange ==
    [][(ev'.by = "headOk" /\ initialized /\ head <= lastBlockNumber) =>
        /\ Returned(ev')
        /\ ev'.inv.tried = <<>>
        /\ lastBlockNumber' = lastBlockNumber
        /\ fetchedInc' = fetchedInc
        /\ reported' = reported
        /\ BagCardinality(inflight') = BagCardinality(inflight) - 1]_vars

\* A tick has just read a head strictly below the cursor.
C10_Witness ==
    /\ ev.by = "headOk"
    /\ ev.inv.scan = "noop"
    /\ ev.inv.latestBlockNum < lastBlockNumber

\* ------------------------------------------------------------ C11
\* C11: a successfully fetched block is classified high-volume exactly when its
\* transaction count is at least the threshold: a block with exactly the
\* threshold's count is always classified, a block below it never is.  Stated
\* for part_001, whose threshold is the literal of part_001:31.
C11_ThresholdBoundary ==
    ev.by = "fetchOk" =>
        (Last(ev.inv.tried) \in Range(ev.inv.highVolumeBlocks)
            <=> ev.inv.txCount >= P1_Threshold)

\* ------------------------------------------------------------ C12
\* C12: a scan of a block range sends an alert if and only if at least one
\* block of the range was classified high-volume (transaction count at least
\* the threshold), and then exactly one; a range with no high-volume block
\* sends none.  Stated for index.js: the scan's loop has just ended.
C12_AlertIffHighVolume ==
    [][(FetchSettled(ev') /\ ev'.inv.pc # "fetchBlock") =>
        LET inv == ev'.inv
            highVolume == {d \in Range(inv.blockDetails) : d.txCount >= SPAM_THRESHOLD}
        IN /\ inv.pc = "sendMessage" <=> highVolume # {}
           /\ BagCardinality(inflight') =
                 BagCardinality(inflight) - (IF highVolume # {} THEN 0 ELSE 1)]_vars

\* ------------------------------------------------------------ C13
\* C13: within one tick the blocks are fetched one at a time in increasing
\* block-number order -- an invocation inside its range has settled exactly the
\* blocks startBlock..i-1, in that order, and has at most the fetch of block i
\* outstanding -- and the per-block lines of the alert it sends list the
\* high-volume blocks in ascending block-number order.
C13_InOrder(inv) ==
    inv.scan \in {"init", "inc"} =>
        /\ inv.tried = SeqRange(inv.startBlock, inv.i - 1)
        /\ inv.pc = "fetchBlock" => inv.i <= inv.endBlock
        /\ inv.pc \in {"sendMessage", "returned"} => inv.i = inv.endBlock + 1
        /\ LET lines == BlockLines(inv.highVolumeBlocks)
           IN \A j, k \in 1..Len(lines) : j < k => lines[j] < lines[k]

C13_SequentialAscending ==
    /\ \A inv \in Running : C13_InOrder(inv)
    /\ C13_InOrder(ev.inv)

\* An alert with two per-block lines is being sent.
C13_Witness ==
    /\ ev.inv.pc = "sendMessage"
    /\ Len(BlockLines(ev.inv.highVolumeBlocks)) = 2
    /\ Len(ev.inv.tried) = 2

\* ------------------------------------------------------------ C14
\* C14: when k > 5 sender addresses meet the threshold in a scan window, the
\* composed alert lists exactly 5 addresses and states that k - 5 additional
\* addresses remain.  Stated for part_000's sendSpamAlert.
C14_Truncation ==
    ev.by = "compose" =>
        LET inv == ev.inv
            k == Cardinality({a \in DOMAIN inv.allAddressTxCount :
                                 inv.allAddressTxCount[a] >= spamThreshold})
        IN k > 5 => /\ inv.message.topSection
                    /\ Len(inv.message.addressesToShow) = 5
                    /\ inv.message.remainingCount = k - 5

\* ------------------------------------------------------------ C15
\* C15: the composed block alert has a top-sender section only when at least
\* one sender address has an aggregated send count that meets the configured
\* threshold.  Stated for part_000's sendSpamAlert.
C15_SectionOnlyAboveThreshold ==
    ev.by = "compose" =>
        (ev.inv.message.topSection =>
            \E a \in DOMAIN ev.inv.allAddressTxCount :
                ev.inv.allAddressTxCount[a] >= spamThreshold)

\* ------------------------------------------------------------ C16
\* C16: when the node does not provide the pending-pool status -- the query is
\* unavailable or fails -- the pending-pool check ends there with no result: it
\* sends no alert, does not query the pool content, does not report the error
\* as a failure, and leaves the scanner's cursor untouched.  Stated for
\* part_000's checkPendingTxs.
C16_StatusUnavailable ==
    [][ev'.by \in {"noPool", "statusFail"} =>
        /\ Returned(ev')
        /\ ~ev'.inv.message.sent
        /\ "content" \notin ev'.inv.queried
        /\ ev'.inv.log = {}
        /\ lastBlockNumber' = lastBlockNumber]_vars

\* ------------------------------------------------------------ C17
\* C17: a pending-pool check whose status query answered sends exactly one
\* alert when the reported pending count is strictly greater than 50 and none
\* otherwise; when the detailed pool-content fetch failed, the alert is still
\* sent and carries a note that detailed data was unavailable.  Stated for
\* part_000's checkPendingTxs, at the end of the check.
C17_PendingAlert ==
    (Returned(ev) /\ ev.by \in {"statusOk", "sendOk", "sendFail"}) =>
        /\ ev.inv.message.sent <=> ev.inv.pendingCount > 50
        /\ ev.by = "statusOk" => ~ev.inv.message.sent
        /\ "content" \in ev.inv.log => ev.inv.message.sent /\ ev.inv.message.note

\* ------------------------------------------------------------ C18
\* C18: the cursor is written only at the end of a scan of a contiguous range:
\* across a step that leaves some tick suspended part-way through the fetches
\* of its range, lastBlockNumber does not change -- neither that tick nor a
\* tick running concurrently writes it.
C18_CursorStableDuringScan ==
    [][(\E inv \in Running : inv.pc = "fetchBlock" /\ BagIn(inv, inflight'))
          => lastBlockNumber' = lastBlockNumber]_vars

\* ------------------------------------------------------------ C19
\* C19: the per-address send counts used for top-sender selection come only
\* from the transactions of the blocks of the current range that are
\* classified high-volume (transaction count at least the threshold): a
\* transaction of a scanned block below the threshold adds to no sender's
\* count, and a scan starts with no counts from an earlier one.  Stated for
\* index.js, for the counts its summary is composed from.
C19_CountsFromHighVolumeOnly ==
    /\ (ev.by = "headOk" /\ ev.inv.pc = "fetchBlock") => ev.inv.allTransactions = <<>>
    /\ (FetchSettled(ev) /\ ev.inv.pc = "sendMessage") =>
          LET all == ev.inv.allTransactions
              highVolume == SelectSeq(all,
                  LAMBDA b : IX_Length(b.transactions) >= SPAM_THRESHOLD)
          IN \A s \in IX_Senders :
                IX_senderCounts(all)[s] = IX_senderCounts(highVolume)[s]

\* ------------------------------------------------------------ C20
\* C20: the initialization / catch-up path runs at most once per process
\* lifetime, even when several head queries are pending before the first of
\* them resolves: a tick takes the not-initialized branch only while the flag
\* is unset and no catch-up is under way, taking it sets the flag, and the flag
\* is never unset again.
C20_InitializesOnce ==
    [][/\ (ev'.by = "headOk" /\ ev'.inv.scan = "init") =>
             /\ ~initialized
             /\ initialized'
             /\ \A inv \in Running : inv.scan # "init"
       /\ initialized => initialized']_vars

\* A tick has just taken the not-initialized branch while another tick's head
\* query, issued before, is still pending.
C20_Witness ==
    /\ ev.by = "headOk"
    /\ ev.inv.scan = "init"
    /\ \E inv \in Running : inv.pc = "getBlockNumber"

====
